---- MODULE Spec2Model ----
(***************************************************************************)
(* Model of the Binance spot scraper (scraper_root/scraper/binancespot.py). *)
(* The trade-history synchroniser sync_trades is modelled as a state        *)
(* machine with one step per remote fill-history call; the venue and the    *)
(* repository are the collaborators it talks to.                            *)
(*                                                                          *)
(* Numbers: the source computes with floats; the model computes with exact  *)
(* rationals <<numerator, denominator>> in lowest terms.                    *)
(***************************************************************************)
EXTENDS Integers, Sequences, FiniteSets, TLC

\* ------------------------------------------------------------------ bounds
\* Total number of fills the venue ever holds (all symbols together).
MaxFills == 2
\* Largest value of the wall clock (milliseconds in the source).
MaxTime == 2
\* Number of process restarts in one behaviour.
MaxRestarts == 1
\* Page size of one fill-history call ('limit': 1000 in the source).
PageLimit == 1

\* Longest list of trades calculate_incomes and calc_long_pprice are run on.
MaxLen == 3
\* Largest timestamp of those trades.
MaxTs == 1

\* Number of symbols in the exchange information.
MaxUniverse == 4

\* The lookups find_new_traded_symbols issues in one pass (counter < 3).
LookupLimit == 3

\* Number of process_trades threads started in one behaviour.
MaxThreads == 3

\* The per-cycle budget of sync_trades (max_downloads = 10 in the source), scaled
\* with the other bounds so that a cycle can use it up.
max_downloads == 4

Symbols == {"A", "B"}
\* None, as a symbol and as a trade.
None == "None"
NoTrade == [ none |-> TRUE ]

\* The kinds of fill the venue produces: side, quantity, price.
FillKinds ==
    { [side |-> "BUY", qty |-> 1, price |-> 1],
      [side |-> "SELL", qty |-> 1, price |-> 2] }

VARIABLES
    now,                 \* wall clock
    venue,               \* venue[s]: the fills the venue holds for s, by order id
    traded,              \* repository: traded symbols, least recently downloaded first
    trades,              \* repository: trade rows of each symbol
    incomes,             \* repository: income rows of each symbol
    first_trade_reached, \* sync_trades: dict symbol -> bool
    pc,                  \* sync_trades: position in the cycle
    counter,             \* sync_trades: budget counter of the cycle
    iteration_symbols,   \* sync_trades: symbols scanned in this cycle
    symbol,              \* sync_trades: symbol being scanned
    newest_trade_reached,\* sync_trades: the forward pass saw an empty page
    calls,               \* remote fill-history calls issued in this cycle
    lastReq,             \* the most recent remote fill-history call
    emptyBackward,       \* per symbol: empty backward pages seen in this process run
    passNew,             \* fills the forward pass in progress stored so far
    restarts,            \* process restarts so far
    pnl_trades,          \* calculate_incomes: the argument trades
    pnl_i,               \* calculate_incomes: rows of trades the loop has processed
    psize,               \* calculate_incomes: position size
    pprice,              \* calculate_incomes: average entry price
    pnl_incomes,         \* calculate_incomes: the list incomes
    pp_result,           \* calc_long_pprice: the last call and the value it returned
    exchange_information,\* self.exchange_information['symbols']: symbol and status
    symbol_checks,       \* repository: the symbols marked checked
    find_pc,             \* find_new_traded_symbols: in the pass or asleep
    find_i,              \* find_new_traded_symbols: items of the pass gone through
    find_counter,        \* find_new_traded_symbols: counter
    lookups,             \* remote history lookups issued in this pass
    lastLookup,          \* the most recent remote history lookup
    config_symbols,      \* self.config.symbols
    start_i,             \* start(): symbols of the config a thread was started for
    tick_symbols,        \* self.tick_symbols
    tick_threads,        \* the process_trades threads: symbol and position
    streams,             \* ws_manager: tick streams created, per symbol
    account,             \* venue: account['balances'], asset with free and locked
    current_prices,      \* venue: the symbols of get_all_tickers(), in its order
    prices,              \* repository: the most recent tick price of each symbol
    balance,             \* repository: the balance snapshot written last
    positions,           \* repository: the positions written last
    acct_pc,             \* sync_account: in the cycle or asleep
    orders,              \* repository: the stored open orders
    open_orders,         \* venue: the orders that are open
    orders_pc,           \* sync_open_orders: in the cycle, asleep or ended
    lastListing          \* the most recent cycle of sync_open_orders

\* The variables of calculate_incomes and calc_long_pprice taken alone.
pnlVars == << pnl_trades, pnl_i, psize, pprice, pnl_incomes, pp_result >>

\* The variables of find_new_traded_symbols but the traded symbols.
findVars == << exchange_information, symbol_checks, find_pc, find_i, find_counter,
               lookups, lastLookup >>

\* The variables of the process_trades threads and of those that start them.
tickVars == << config_symbols, start_i, tick_symbols, tick_threads, streams >>

\* The variables of sync_account but the repository tables it reads.
acctVars == << account, current_prices, prices, balance, positions, acct_pc >>

\* The variables of sync_open_orders and of the venue's open orders.
orderVars == << orders, open_orders, orders_pc, lastListing >>

restVars == << acctVars, orderVars >>

\* The variables that sync_trades, the venue and the clock leave alone.
otherVars == << pnlVars, findVars, tickVars, restVars >>

\* The variables of sync_trades, of its repository tables, the venue and the clock.
syncVars == << now, venue, traded, trades, incomes, first_trade_reached, pc, counter,
               iteration_symbols, symbol, newest_trade_reached, calls, lastReq,
               emptyBackward, passNew, restarts >>

vars == << now, venue, traded, trades, incomes, first_trade_reached, pc, counter,
           iteration_symbols, symbol, newest_trade_reached, calls, lastReq,
           emptyBackward, passNew, restarts, otherVars >>

\* ------------------------------------------------------------ arithmetic
RECURSIVE GCD(_, _)
GCD(a, b) == IF b = 0 THEN a ELSE GCD(b, a % b)

Abs(x) == IF x < 0 THEN -x ELSE x

\* The pair << n, d >> as a rational in lowest terms with a positive denominator.
Norm(p) ==
    LET g == GCD(Abs(p[1]), Abs(p[2]))
    IN  << (IF p[2] < 0 THEN -p[1] ELSE p[1]) \div g, Abs(p[2]) \div g >>

\* Exact arithmetic on rationals.  Each operation binds its operands (a, b) and
\* its unreduced result (p) to their values, so that each is evaluated once.
Rat(n) == << n, 1 >>
RAdd(x, y) ==
    CHOOSE q \in { Norm(p) : p \in { << a[1] * b[2] + b[1] * a[2], a[2] * b[2] >> :
                                       a \in { x }, b \in { y } } } : TRUE
RSub(x, y) ==
    CHOOSE q \in { Norm(p) : p \in { << a[1] * b[2] - b[1] * a[2], a[2] * b[2] >> :
                                       a \in { x }, b \in { y } } } : TRUE
RMul(x, y) ==
    CHOOSE q \in { Norm(p) : p \in { << a[1] * b[1], a[2] * b[2] >> :
                                       a \in { x }, b \in { y } } } : TRUE
RDiv(x, y) ==
    CHOOSE q \in { Norm(p) : p \in { << a[1] * b[2], a[2] * b[1] >> :
                                       a \in { x }, b \in { y } } } : TRUE
RPos(x) == x[1] > 0
\* max(0.0, x) left out: the value is kept as it is.
RMax0_NoClamp(x) == x
\* max(0.0, x)
RMax0(x) == IF x[1] > 0 THEN x ELSE Rat(0)

\* ------------------------------------------------------------- sequences
Range(seq) == { seq[i] : i \in 1..Len(seq) }

\* The last n elements of seq (all of it when shorter).
LastN(seq, n) ==
    IF Len(seq) <= n THEN seq ELSE SubSeq(seq, Len(seq) - n + 1, Len(seq))

\* The first n elements of seq (all of it when shorter).
FirstN(seq, n) ==
    IF Len(seq) <= n THEN seq ELSE SubSeq(seq, 1, n)

\* ------------------------------------------------------------------ venue
\* One fill as the venue reports it (the exchange_trade dict of the source).
ExchangeTrade(s, id, kind, t) ==
    [ symbol |-> s, orderId |-> id, qty |-> kind.qty, price |-> kind.price,
      isBuyer |-> (kind.side = "BUY"), time |-> t ]

TotalFills == Len(venue["A"]) + Len(venue["B"])

\* get-my-fills(symbol, page-size, end-time): the most recent `limit` fills of s
\* whose time is at most endTime, in order-id order.
BackwardPageOf(s, endTime, limit) ==
    LET upTo(f) == f.time <= endTime
    IN  LastN(SelectSeq(venue[s], upTo), limit)

\* get-my-fills(symbol, page-size, min-order-id): the first `limit` fills of s
\* whose order id is at least orderId, in order-id order.
ForwardPageOf(s, orderId, limit) ==
    LET from(f) == f.orderId >= orderId
    IN  FirstN(SelectSeq(venue[s], from), limit)

\* ------------------------------------------------------------- repository
\* Trade(...) with the fill's time taken for its order id.
TradeOf_KeyedByTime(exchange_trade) ==
    [ symbol |-> exchange_trade.symbol,
      order_id |-> exchange_trade.time,
      quantity |-> exchange_trade.qty,
      price |-> exchange_trade.price,
      side |-> IF exchange_trade.isBuyer = TRUE THEN "BUY" ELSE "SELL",
      timestamp |-> exchange_trade.time ]

\* Trade(...) as built from one exchange_trade.
TradeOf(exchange_trade) ==
    [ symbol |-> exchange_trade.symbol,
      order_id |-> exchange_trade.orderId,
      quantity |-> exchange_trade.qty,
      price |-> exchange_trade.price,
      side |-> IF exchange_trade.isBuyer = TRUE THEN "BUY" ELSE "SELL",
      timestamp |-> exchange_trade.time ]

TradesOf(exchange_trades) ==
    [ i \in 1..Len(exchange_trades) |-> TradeOf(exchange_trades[i]) ]

\* upsert-trade: the row with the trade's order id is replaced, else appended.
UpsertTrade(rows, trade) ==
    IF \E i \in 1..Len(rows) : rows[i].order_id = trade.order_id
    THEN [ i \in 1..Len(rows) |->
             IF rows[i].order_id = trade.order_id THEN trade ELSE rows[i] ]
    ELSE Append(rows, trade)

RECURSIVE process_trades(_, _)
\* repository.process_trades(trades): every trade is upserted.
process_trades(rows, new) ==
    IF new = << >> THEN rows
    ELSE CHOOSE out \in { process_trades(upserted, Tail(new)) :
                             upserted \in { UpsertTrade(rows, Head(new)) } } : TRUE

\* repository.get_oldest_trade(symbol): the row of least timestamp, or None.
get_oldest_trade(rows) ==
    IF rows = << >> THEN NoTrade
    ELSE CHOOSE r \in Range(rows) :
           \A q \in Range(rows) :
              r.timestamp < q.timestamp
              \/ (r.timestamp = q.timestamp /\ r.order_id <= q.order_id)

\* repository.get_newest_trade(symbol): the row of greatest order id, or None.
get_newest_trade(rows) ==
    IF rows = << >> THEN NoTrade
    ELSE CHOOSE r \in Range(rows) : \A q \in Range(rows) : r.order_id >= q.order_id

\* row r placed into the timestamp-ordered sequence sorted, after its equals.
InsertByTimestamp(sorted, r) ==
    LET notAfter(q) == q.timestamp <= r.timestamp
        after(q) == q.timestamp > r.timestamp
    IN  SelectSeq(sorted, notAfter) \o << r >> \o SelectSeq(sorted, after)

RECURSIVE ByTimestamp(_)
\* The rows ordered by timestamp; rows of one timestamp keep their stored order.
ByTimestamp(rows) ==
    IF rows = << >> THEN << >>
    ELSE CHOOSE out \in { InsertByTimestamp(sorted, rows[Len(rows)]) :
                             sorted \in { ByTimestamp(SubSeq(rows, 1, Len(rows) - 1)) } } : TRUE

\* repository.get_trades(symbol): all rows of the symbol, ordered by timestamp.
get_trades(rows) == ByTimestamp(rows)

\* insert-or-replace of one income, keyed by its transaction id.
UpsertIncome(rows, income) ==
    IF \E i \in 1..Len(rows) : rows[i].transaction_id = income.transaction_id
    THEN [ i \in 1..Len(rows) |->
             IF rows[i].transaction_id = income.transaction_id THEN income ELSE rows[i] ]
    ELSE Append(rows, income)

RECURSIVE process_incomes(_, _)
\* repository.process_incomes(incomes): every income is inserted or replaced.
process_incomes(rows, new) ==
    IF new = << >> THEN rows
    ELSE CHOOSE out \in { process_incomes(upserted, Tail(new)) :
                             upserted \in { UpsertIncome(rows, Head(new)) } } : TRUE

\* repository.get_next_traded_symbol(): the traded symbol downloaded least recently.
get_next_traded_symbol == IF traded = << >> THEN None ELSE Head(traded)

\* repository.update_trades_last_downloaded(symbol): s becomes the most recent one.
update_trades_last_downloaded(queue, s) ==
    LET other(x) == x # s
    IN  Append(SelectSeq(queue, other), s)

\* ------------------------------------------------------- position and PnL
\* The prices taken in the other order: abs(qty) * (entry_price - close_price).
calc_long_pnl_Swapped(entry_price, close_price, qty) ==
    RMul(Rat(Abs(qty)), RSub(entry_price, close_price))

\* calc_long_pnl(entry_price, close_price, qty, inverse = False, c_mult)
calc_long_pnl(entry_price, close_price, qty) ==
    RMul(Rat(Abs(qty)), RSub(close_price, entry_price))

\* One iteration of the loop of calculate_incomes over state st = [psize, pprice, incomes].
IncomeStep(st, s, trade) ==
    IF trade.side = "BUY"
    THEN LET new_psize == RAdd(st.psize, Rat(trade.quantity))
         IN  [ st EXCEPT
                 !.pprice = RAdd(RMul(st.pprice, RDiv(st.psize, new_psize)),
                                 RMul(Rat(trade.price), RDiv(Rat(trade.quantity), new_psize))),
                 !.psize = new_psize ]
    ELSE IF RPos(st.psize)
    THEN [ st EXCEPT
             !.incomes = Append(st.incomes,
                 [ symbol |-> s,
                   income |-> calc_long_pnl(st.pprice, Rat(trade.price), trade.quantity),
                   timestamp |-> trade.timestamp,
                   transaction_id |-> trade.order_id ]),
             !.psize = RMax0(RSub(st.psize, Rat(trade.quantity))) ]
    ELSE st

RECURSIVE Replay(_, _, _)
\* The loop of calculate_incomes: the state after one iteration (next) is bound
\* to its value before the remaining rows are replayed from it.
Replay(st, s, rows) ==
    IF rows = << >> THEN st
    ELSE CHOOSE out \in { Replay(next, s, Tail(rows)) :
                             next \in { IncomeStep(st, s, Head(rows)) } } : TRUE

\* calculate_incomes(symbol, trades)
calculate_incomes(s, rows) ==
    Replay([ psize |-> Rat(0), pprice |-> Rat(0), incomes |-> << >> ], s, rows).incomes

\* ------------------------------------------------------------ sync_trades
\* The variables of one cycle are reset where the cycle ends: the source resets
\* them where the next cycle starts and never reads them in between.
NoReq == [ kind |-> "none", symbol |-> None, arg |-> 0, ok |-> TRUE, n |-> 0 ]

\* A remote fill-history call: its direction, symbol and cursor argument, whether it
\* returned, and the length of the page it returned.
Req(kind, s, arg, ok, page) ==
    [ kind |-> kind, symbol |-> s, arg |-> arg, ok |-> ok, n |-> Len(page) ]

\* first_trade_reached[s] is True
Flag(s) == s \in DOMAIN first_trade_reached /\ first_trade_reached[s]

\* counter <= max_downloads: one call too many.
HasBudget_Inclusive(c) == c <= max_downloads

\* counter < max_downloads
HasBudget(c) == c < max_downloads

\* len(exchange_trades) <= 1: a page of one fill taken for the end.
PageEmpty_OffByOne(exchange_trades) == Len(exchange_trades) <= 1

\* len(exchange_trades) < 1
PageEmpty(exchange_trades) == Len(exchange_trades) < 1

\* 'endTime': oldest_timestamp, the oldest stored fill asked for again.
BackwardEndTime_Inclusive(oldest_trade) ==
    IF oldest_trade = NoTrade THEN now ELSE oldest_trade.timestamp

\* 'endTime': oldest_timestamp - 1
BackwardEndTime(oldest_trade) ==
    LET oldest_timestamp == IF oldest_trade = NoTrade THEN now ELSE oldest_trade.timestamp
    IN  oldest_timestamp - 1

\* 'orderId': newest_order_id, the newest stored fill asked for again.
ForwardOrderId_NoIncrement(newest_trade) ==
    IF newest_trade = NoTrade THEN 0 ELSE newest_trade.order_id

\* 'orderId': newest_order_id + 1
ForwardOrderId(newest_trade) ==
    LET newest_order_id == IF newest_trade = NoTrade THEN 0 ELSE newest_trade.order_id
    IN  newest_order_id + 1

\* update_trades_last_downloaded left out: the same symbol is selected again.
QueueAfterSelect_NoUpdate(s) == traded

\* The queue of traded symbols after the selection of s.
QueueAfterSelect(s) ==
    IF s # None THEN update_trades_last_downloaded(traded, s) ELSE traded

\* The incomes computed without the oldest stored row.
ComputeIncomes_Subset(s, rows) ==
    calculate_incomes(s, get_trades(IF rows = << >> THEN << >> ELSE Tail(rows)))

\* incomes = self.calculate_incomes(symbol, trades = self.repository.get_trades(symbol))
\* with rows the stored trades of the symbol.
ComputeIncomes(s, rows) == calculate_incomes(s, get_trades(rows))

\* Where sync_trades stands once the backward loop has run a step for the symbol:
\* in the backward loop, in the forward loop, or (the budget used up, which ends
\* both loops and the loop over the symbols) in time.sleep(60).
PcAfterBackward(flag, c) ==
    IF ~ HasBudget(c) THEN "sleep" ELSE IF flag = FALSE THEN "backward" ELSE "forward"

\* Where sync_trades stands once the forward loop has run a step for the symbol.
PcAfterForward(reached, c) ==
    IF ~ HasBudget(c) THEN "sleep" ELSE IF reached = FALSE THEN "forward" ELSE "select"

\* The `continue` of line 110 without the `counter += 1` of line 109: an iteration
\* for a missing or repeated symbol leaves the counter as it is.
SelectSymbol_SkipNotCounted ==
    /\ UNCHANGED otherVars
    /\ pc = "select"
    /\ HasBudget(counter)
    /\ LET s == get_next_traded_symbol
       IN  /\ traded' = QueueAfterSelect(s)
           /\ IF s = None \/ s \in Range(iteration_symbols)
              THEN UNCHANGED << pc, counter, iteration_symbols, first_trade_reached, symbol >>
              ELSE /\ iteration_symbols' = Append(iteration_symbols, s)
                   /\ first_trade_reached' =
                        IF s \in DOMAIN first_trade_reached THEN first_trade_reached
                        ELSE first_trade_reached @@ (s :> FALSE)
                   /\ symbol' = s
                   /\ pc' = PcAfterBackward(Flag(s), counter)
                   /\ UNCHANGED counter
    /\ newest_trade_reached' = FALSE
    /\ passNew' = 0
    /\ lastReq' = NoReq
    /\ UNCHANGED << now, venue, trades, incomes, calls, emptyBackward, restarts >>

\* One iteration of `while counter < max_downloads`, up to the scans of the symbol.
SelectSymbol ==
    /\ UNCHANGED otherVars
    /\ pc = "select"
    /\ HasBudget(counter)
    /\ LET s == get_next_traded_symbol
       IN  /\ traded' = QueueAfterSelect(s)
           /\ IF s = None \/ s \in Range(iteration_symbols)
              THEN /\ pc' = IF HasBudget(counter + 1) THEN "select" ELSE "sleep"
                   /\ counter' = IF HasBudget(counter + 1) THEN counter + 1 ELSE 0
                   /\ iteration_symbols' =
                        IF HasBudget(counter + 1) THEN iteration_symbols ELSE << >>
                   /\ UNCHANGED << first_trade_reached, symbol >>
              ELSE /\ iteration_symbols' = Append(iteration_symbols, s)
                   /\ first_trade_reached' =
                        IF s \in DOMAIN first_trade_reached THEN first_trade_reached
                        ELSE first_trade_reached @@ (s :> FALSE)
                   /\ symbol' = s
                   /\ pc' = PcAfterBackward(Flag(s), counter)
                   /\ UNCHANGED counter
    /\ newest_trade_reached' = FALSE
    /\ passNew' = 0
    /\ lastReq' = NoReq
    /\ UNCHANGED << now, venue, trades, incomes, calls, emptyBackward, restarts >>

\* One iteration of the backward loop whose remote call returns: a page of older fills.
BackwardPage ==
    /\ UNCHANGED otherVars
    /\ pc = "backward"
    /\ LET endTime == BackwardEndTime(get_oldest_trade(trades[symbol]))
           exchange_trades == BackwardPageOf(symbol, endTime, PageLimit)
           reached == PageEmpty(exchange_trades)
           after == PcAfterBackward(reached, counter + 1)
       IN  /\ calls' = calls + 1
           /\ lastReq' = Req("backward", symbol, endTime, TRUE, exchange_trades)
           /\ trades' = [ trades EXCEPT
                            ![symbol] = process_trades(@, TradesOf(exchange_trades)) ]
           /\ first_trade_reached' =
                IF reached
                THEN [ first_trade_reached EXCEPT ![symbol] = TRUE ]
                ELSE first_trade_reached
           /\ emptyBackward' =
                IF exchange_trades = << >>
                THEN [ emptyBackward EXCEPT ![symbol] = @ + 1 ]
                ELSE emptyBackward
           /\ pc' = after
           /\ counter' = IF after = "sleep" THEN 0 ELSE counter + 1
           /\ iteration_symbols' = IF after = "sleep" THEN << >> ELSE iteration_symbols
           /\ symbol' = IF after = "sleep" THEN None ELSE symbol
    /\ UNCHANGED << now, venue, traded, incomes, newest_trade_reached, passNew,
                    restarts >>

\* The failed call taken for an empty page: the flag is set.
BackwardFail_SetsFlag ==
    /\ UNCHANGED otherVars
    /\ pc = "backward"
    /\ calls' = calls + 1
    /\ lastReq' = [ kind |-> "backward", symbol |-> symbol, ok |-> FALSE, n |-> 0,
                    arg |-> (IF trades[symbol] = << >> THEN now
                             ELSE get_oldest_trade(trades[symbol]).timestamp) - 1 ]
    /\ first_trade_reached' = [ first_trade_reached EXCEPT ![symbol] = TRUE ]
    /\ pc' = "sleep"
    /\ counter' = 0
    /\ iteration_symbols' = << >>
    /\ symbol' = None
    /\ UNCHANGED << now, venue, traded, trades, incomes, newest_trade_reached,
                    emptyBackward, passNew, restarts >>

\* The remote call of the backward loop raises: the cycle ends in the handler.
BackwardFail ==
    /\ UNCHANGED otherVars
    /\ pc = "backward"
    /\ calls' = calls + 1
    /\ lastReq' = Req("backward", symbol,
                      BackwardEndTime(get_oldest_trade(trades[symbol])), FALSE, << >>)
    /\ pc' = "sleep"
    /\ counter' = 0
    /\ iteration_symbols' = << >>
    /\ symbol' = None
    /\ UNCHANGED << now, venue, traded, trades, incomes, first_trade_reached,
                    newest_trade_reached, emptyBackward, passNew, restarts >>

\* One iteration of the forward loop whose remote call returns: a page of newer
\* fills; with the newest trade reached, the incomes of the symbol are written.
ForwardPage ==
    /\ UNCHANGED otherVars
    /\ pc = "forward"
    /\ LET orderId == ForwardOrderId(get_newest_trade(trades[symbol]))
           exchange_trades == ForwardPageOf(symbol, orderId, PageLimit)
           stored == process_trades(trades[symbol], TradesOf(exchange_trades))
           reached == PageEmpty(exchange_trades)
           after == PcAfterForward(reached, counter + 1)
       IN  /\ calls' = calls + 1
           /\ lastReq' = Req("forward", symbol, orderId, TRUE, exchange_trades)
           /\ trades' = [ trades EXCEPT ![symbol] = stored ]
           /\ passNew' = passNew + (Len(stored) - Len(trades[symbol]))
           /\ newest_trade_reached' = reached
           /\ incomes' =
                IF reached
                THEN [ incomes EXCEPT
                         ![symbol] = process_incomes(@, ComputeIncomes(symbol, stored)) ]
                ELSE incomes
           /\ pc' = after
           /\ counter' = IF after = "sleep" THEN 0 ELSE counter + 1
           /\ iteration_symbols' = IF after = "sleep" THEN << >> ELSE iteration_symbols
           /\ symbol' = IF after = "sleep" THEN None ELSE symbol
    /\ UNCHANGED << now, venue, traded, first_trade_reached, emptyBackward, restarts >>

\* The remote call of the forward loop raises: the cycle ends in the handler.
ForwardFail ==
    /\ UNCHANGED otherVars
    /\ pc = "forward"
    /\ calls' = calls + 1
    /\ lastReq' = Req("forward", symbol,
                      ForwardOrderId(get_newest_trade(trades[symbol])), FALSE, << >>)
    /\ pc' = "sleep"
    /\ counter' = 0
    /\ iteration_symbols' = << >>
    /\ symbol' = None
    /\ UNCHANGED << now, venue, traded, trades, incomes, first_trade_reached,
                    newest_trade_reached, emptyBackward, passNew, restarts >>

\* time.sleep(60) is over: the next cycle starts.
Wake ==
    /\ UNCHANGED otherVars
    /\ pc = "sleep"
    /\ calls' = 0
    /\ lastReq' = NoReq
    /\ newest_trade_reached' = FALSE
    /\ passNew' = 0
    /\ pc' = "select"
    /\ UNCHANGED << now, venue, traded, trades, incomes, first_trade_reached, symbol,
                    counter, iteration_symbols, emptyBackward, restarts >>

\* The process is started again: the repository is kept, the memory of sync_trades is not.
Restart ==
    /\ UNCHANGED otherVars
    /\ restarts < MaxRestarts
    /\ restarts' = restarts + 1
    /\ first_trade_reached' = << >>
    /\ iteration_symbols' = << >>
    /\ counter' = 0
    /\ calls' = 0
    /\ symbol' = None
    /\ newest_trade_reached' = FALSE
    /\ lastReq' = NoReq
    /\ emptyBackward' = [ s \in Symbols |-> 0 ]
    /\ passNew' = 0
    /\ pc' = "select"
    /\ UNCHANGED << now, venue, traded, trades, incomes >>

\* ------------------------------------------------------------ environment
\* The wall clock advances.
Tick ==
    /\ UNCHANGED otherVars
    /\ now < MaxTime
    /\ now' = now + 1
    /\ UNCHANGED << venue, traded, trades, incomes, first_trade_reached, pc, counter,
                    iteration_symbols, symbol, newest_trade_reached, calls, lastReq,
                    emptyBackward, passNew, restarts >>

\* The venue executes one more fill of a symbol, at the current time.
VenueFill ==
    /\ UNCHANGED otherVars
    /\ TotalFills < MaxFills
    /\ \E s \in Range(traded), kind \in FillKinds :
          venue' = [ venue EXCEPT
                       ![s] = Append(@, ExchangeTrade(s, Len(@) + 1, kind, now)) ]
    /\ UNCHANGED << now, traded, trades, incomes, first_trade_reached, pc, counter,
                    iteration_symbols, symbol, newest_trade_reached, calls, lastReq,
                    emptyBackward, passNew, restarts >>

\* calc_long_pprice was not called.
NoResult == [ none |-> TRUE ]

\* calculate_incomes on entry, called with no trades; calc_long_pprice not called.
PnlIdle ==
    /\ pnl_trades = << >>
    /\ pnl_i = 0
    /\ psize = Rat(0)
    /\ pprice = Rat(0)
    /\ pnl_incomes = << >>
    /\ pp_result = NoResult

\* No remote history lookup was issued.
NoLookup == [ symbol |-> None, ok |-> TRUE, n |-> 0, retry |-> FALSE ]

\* find_new_traded_symbols not started, no exchange information loaded.
FindIdle ==
    /\ exchange_information = << >>
    /\ symbol_checks = {}
    /\ find_pc = "pass"
    /\ find_i = 0
    /\ find_counter = 0
    /\ lookups = 0
    /\ lastLookup = NoLookup

\* No symbol configured, no process_trades thread started.
TickIdle ==
    /\ config_symbols = << >>
    /\ start_i = 0
    /\ tick_symbols = << >>
    /\ tick_threads = << >>
    /\ streams = [ s \in Symbols |-> 0 ]

\* No balance listed, no snapshot written, sync_account not started.
NoBalance == [ none |-> TRUE ]
\* repository.get_current_price returns None: no tick stored.
NoTick == [ none |-> TRUE ]
AcctIdle ==
    /\ account = << >>
    /\ current_prices = << >>
    /\ prices = [ s \in Symbols |-> NoTick ]
    /\ balance = NoBalance
    /\ positions = << >>
    /\ acct_pc = "cycle"

\* No cycle of sync_open_orders was run.
NoListing == [ none |-> TRUE ]

\* No order open, none stored, sync_open_orders not started.
OrdersIdle ==
    /\ orders = {}
    /\ open_orders = {}
    /\ orders_pc = "cycle"
    /\ lastListing = NoListing

RestIdle == AcctIdle /\ OrdersIdle

OtherIdle == PnlIdle /\ FindIdle /\ TickIdle /\ RestIdle

Init ==
    /\ OtherIdle
    /\ now = 0
    /\ venue = [ s \in Symbols |-> << >> ]
    /\ traded \in { << >>, << "A" >>, << "A", "B" >> }
    /\ trades = [ s \in Symbols |-> << >> ]
    /\ incomes = [ s \in Symbols |-> << >> ]
    /\ first_trade_reached = << >>
    /\ pc = "select"
    /\ counter = 0
    /\ iteration_symbols = << >>
    /\ symbol = None
    /\ newest_trade_reached = FALSE
    /\ calls = 0
    /\ lastReq = NoReq
    /\ emptyBackward = [ s \in Symbols |-> 0 ]
    /\ passNew = 0
    /\ restarts = 0

SyncStep ==
    \/ SelectSymbol
    \/ BackwardPage
    \/ BackwardFail
    \/ ForwardPage
    \/ ForwardFail
    \/ Wake

Next ==
    \/ SyncStep
    \/ Restart
    \/ Tick
    \/ VenueFill

Spec == Init /\ [][Next]_vars

\* A history of n buys of symbol s, one per millisecond from time 0 on.
BuyHistory(s, n) ==
    [ i \in 1..n |->
        ExchangeTrade(s, i, [side |-> "BUY", qty |-> 1, price |-> 1], i - 1) ]

\* Both symbols queued, each with a finite history that lies in the past.
LiveInit ==
    /\ OtherIdle
    /\ now = MaxTime
    /\ \E na, nb \in 0..MaxFills :
          venue = [ s \in Symbols |-> BuyHistory(s, IF s = "A" THEN na ELSE nb) ]
    /\ traded = << "A", "B" >>
    /\ trades = [ s \in Symbols |-> << >> ]
    /\ incomes = [ s \in Symbols |-> << >> ]
    /\ first_trade_reached = << >>
    /\ pc = "select"
    /\ counter = 0
    /\ iteration_symbols = << >>
    /\ symbol = None
    /\ newest_trade_reached = FALSE
    /\ calls = 0
    /\ lastReq = NoReq
    /\ emptyBackward = [ s \in Symbols |-> 0 ]
    /\ passNew = 0
    /\ restarts = 0

LiveNext ==
    \/ SyncStep
    \/ Restart

\* The sync_trades thread keeps running: each remote call returns or raises, and
\* each sleep ends.
FairSpec == LiveInit /\ [][LiveNext]_vars /\ WF_vars(SyncStep)

\* A history of symbol s with the kinds k[i] and the times ts[i], i = 1..n, in the
\* order of execution; the order id of a fill is its place.
History(s, n, k, ts) == [ i \in 1..n |-> ExchangeTrade(s, i, k[i], ts[i]) ]

\* Symbol A is queued with a finite history that lies in the past: at most MaxLen
\* fills of any kinds, some of them executed in the same millisecond; the
\* repository holds no trade and no income yet.
HistoryInit ==
    /\ OtherIdle
    /\ now = MaxTime
    /\ \E n \in 0..MaxLen :
          \E k \in [ 1..n -> FillKinds ], ts \in [ 1..n -> 0..(MaxTime - 1) ] :
             /\ \A i, j \in 1..n : i < j => ts[i] <= ts[j]
             /\ venue = [ s \in Symbols |->
                            IF s = "A" THEN History(s, n, k, ts) ELSE << >> ]
    /\ traded = << "A" >>
    /\ trades = [ s \in Symbols |-> << >> ]
    /\ incomes = [ s \in Symbols |-> << >> ]
    /\ first_trade_reached = << >>
    /\ pc = "select"
    /\ counter = 0
    /\ iteration_symbols = << >>
    /\ symbol = None
    /\ newest_trade_reached = FALSE
    /\ calls = 0
    /\ lastReq = NoReq
    /\ emptyBackward = [ s \in Symbols |-> 0 ]
    /\ passNew = 0
    /\ restarts = 0

\* sync_trades and restarts of the process, on a history that no longer grows.
HistorySpec == HistoryInit /\ [][LiveNext]_vars

\* ------------------------------------- calculate_incomes, calc_long_pprice
\* sync_trades not started: empty repository, empty venue, nothing queued.
SyncIdle ==
    /\ now = 0
    /\ venue = [ s \in Symbols |-> << >> ]
    /\ traded = << >>
    /\ trades = [ s \in Symbols |-> << >> ]
    /\ incomes = [ s \in Symbols |-> << >> ]
    /\ first_trade_reached = << >>
    /\ pc = "select"
    /\ counter = 0
    /\ iteration_symbols = << >>
    /\ symbol = None
    /\ newest_trade_reached = FALSE
    /\ calls = 0
    /\ lastReq = NoReq
    /\ emptyBackward = [ s \in Symbols |-> 0 ]
    /\ passNew = 0
    /\ restarts = 0

\* The fills the replay is run on: side, quantity, price.
PnlKinds ==
    { [side |-> "BUY", qty |-> q, price |-> p] : q \in {5, 10}, p \in {100, 200} }
    \cup { [side |-> "SELL", qty |-> q, price |-> 300] : q \in {5, 10} }

\* The trade rows of symbol A with the kinds k[i] and timestamps ts[i], i = 1..n;
\* the order id of a row is its index.
PnlRows(n, k, ts) ==
    [ i \in 1..n |->
        [ symbol |-> "A", order_id |-> i, quantity |-> k[i].qty, price |-> k[i].price,
          side |-> k[i].side, timestamp |-> ts[i] ] ]

\* trades is ordered by timestamp (the rows repository.get_trades returns).
IsByTimestamp(rows) ==
    \A i, j \in 1..Len(rows) : i < j => rows[i].timestamp <= rows[j].timestamp

\* The rows in the order perm: row perm[i] at place i.
Permuted(rows, perm) == [ i \in 1..Len(rows) |-> rows[perm[i]] ]

Perms(n) == { f \in [ 1..n -> 1..n ] : \A i, j \in 1..n : f[i] = f[j] => i = j }

\* One iteration of the loop of calc_long_pprice over state st = [psize, pprice].
PpriceStep(st, trade) ==
    LET abs_qty == Abs(trade.quantity)
    IN  IF trade.side = "BUY"
        THEN LET new_psize == RAdd(st.psize, Rat(abs_qty))
             IN  [ psize |-> new_psize,
                   pprice |-> RAdd(RMul(st.pprice, RDiv(st.psize, new_psize)),
                                   RMul(Rat(trade.price), RDiv(Rat(abs_qty), new_psize))) ]
        ELSE [ st EXCEPT !.psize = RMax0(RSub(st.psize, Rat(abs_qty))) ]

RECURSIVE PpriceReplay(_, _)
\* The loop of calc_long_pprice from state st over rows.
PpriceReplay(st, rows) ==
    IF rows = << >> THEN st
    ELSE CHOOSE out \in { PpriceReplay(next, Tail(rows)) :
                             next \in { PpriceStep(st, Head(rows)) } } : TRUE

\* calc_long_pprice(long_psize, trades): trades.sort(key = timestamp) is stable.
calc_long_pprice(long_psize, rows) ==
    PpriceReplay([ psize |-> Rat(0), pprice |-> Rat(0) ], ByTimestamp(rows)).pprice

\* calculate_incomes is called with symbol A and at most MaxLen trades, ordered by
\* timestamp.
PnlInit ==
    /\ SyncIdle
    /\ \E n \in 0..MaxLen :
          \E k \in [ 1..n -> PnlKinds ], ts \in [ 1..n -> 0..MaxTs ] :
             /\ pnl_trades = PnlRows(n, k, ts)
             /\ IsByTimestamp(pnl_trades)
    /\ pnl_i = 0
    /\ psize = Rat(0)
    /\ pprice = Rat(0)
    /\ pnl_incomes = << >>
    /\ pp_result = NoResult
    /\ FindIdle
    /\ TickIdle
    /\ RestIdle

\* One iteration of `for trade in trades` of calculate_incomes.
CalculateIncomesStep ==
    /\ pnl_i < Len(pnl_trades)
    /\ LET st == IncomeStep([ psize |-> psize, pprice |-> pprice,
                              incomes |-> pnl_incomes ], "A", pnl_trades[pnl_i + 1])
       IN  /\ psize' = st.psize
           /\ pprice' = st.pprice
           /\ pnl_incomes' = st.incomes
    /\ pnl_i' = pnl_i + 1
    /\ UNCHANGED << syncVars, restVars, findVars, tickVars, pnl_trades, pp_result >>

\* calc_long_pprice is called with the same trades in some order and with some
\* externally reported size, once calculate_incomes has returned.
CalcLongPprice ==
    /\ pnl_i = Len(pnl_trades)
    /\ pp_result = NoResult
    /\ \E perm \in Perms(Len(pnl_trades)), long_psize \in {0, 15} :
          pp_result' = [ order |-> perm, long_psize |-> long_psize,
                         value |-> calc_long_pprice(long_psize,
                                                    Permuted(pnl_trades, perm)) ]
    /\ UNCHANGED << syncVars, restVars, findVars, tickVars, pnl_trades, pnl_i, psize, pprice,
                    pnl_incomes >>

PnlNext ==
    \/ CalculateIncomesStep
    \/ CalcLongPprice

PnlSpec == PnlInit /\ [][PnlNext]_vars

\* ------------------------------------------------ find_new_traded_symbols
UniverseSymbols == << "A", "B", "C", "D", "E" >>

\* The variables of sync_trades but the traded symbols.
syncVarsButTraded ==
    << now, venue, trades, incomes, first_trade_reached, pc, counter,
       iteration_symbols, symbol, newest_trade_reached, calls, lastReq,
       emptyBackward, passNew, restarts >>

\* repository.is_symbol_traded(symbol)
is_symbol_traded(s) == s \in Range(traded)

\* repository.process_traded_symbol(symbol): s is queued as traded, once.
process_traded_symbol(queue, s) ==
    IF s \in Range(queue) THEN queue ELSE Append(queue, s)

\* counter <= 3: one lookup too many.
LookupBudget_Inclusive(c) == c <= LookupLimit

\* counter < 3
LookupBudget(c) == c < LookupLimit

\* The conditions of lines 70-74 under which the item at place i is looked up.
LookupDue(i) ==
    /\ exchange_information[i].status = "TRADING"
    /\ exchange_information[i].symbol \notin symbol_checks
    /\ ~ is_symbol_traded(exchange_information[i].symbol)
    /\ LookupBudget(find_counter)

\* A remote history lookup of s: whether it returned, the number of trades it
\* returned, and whether it follows a failed lookup of the same symbol.
Lookup(s, ok, n) ==
    [ symbol |-> s, ok |-> ok, n |-> n,
      retry |-> ( ~ lastLookup.ok /\ lastLookup.symbol = s ) ]

\* start() has loaded the exchange information; the repository holds no check and
\* at most one traded symbol.
FindInit ==
    /\ PnlIdle
    /\ TickIdle
    /\ RestIdle
    /\ now = 0
    /\ venue = [ s \in Symbols |-> << >> ]
    /\ traded \in { << >>, << "A" >> }
    /\ trades = [ s \in Symbols |-> << >> ]
    /\ incomes = [ s \in Symbols |-> << >> ]
    /\ first_trade_reached = << >>
    /\ pc = "select"
    /\ counter = 0
    /\ iteration_symbols = << >>
    /\ symbol = None
    /\ newest_trade_reached = FALSE
    /\ calls = 0
    /\ lastReq = NoReq
    /\ emptyBackward = [ s \in Symbols |-> 0 ]
    /\ passNew = 0
    /\ restarts = 0
    /\ \E status \in [ 1..MaxUniverse -> {"TRADING", "BREAK"} ] :
          exchange_information =
             [ i \in 1..MaxUniverse |->
                 [ symbol |-> UniverseSymbols[i], status |-> status[i] ] ]
    /\ symbol_checks = {}
    /\ find_pc = "pass"
    /\ find_i = 0
    /\ find_counter = 0
    /\ lookups = 0
    /\ lastLookup = NoLookup

\* One iteration of the for loop that issues no lookup.
FindSkip ==
    /\ find_pc = "pass"
    /\ find_i < Len(exchange_information)
    /\ ~ LookupDue(find_i + 1)
    /\ find_i' = find_i + 1
    /\ UNCHANGED << syncVars, restVars, pnlVars, tickVars, exchange_information, symbol_checks, find_pc,
                    find_counter, lookups, lastLookup >>

\* One iteration of the for loop whose lookup returns n trades.
FindLookup ==
    /\ find_pc = "pass"
    /\ find_i < Len(exchange_information)
    /\ LookupDue(find_i + 1)
    /\ \E n \in {0, 1} :
          LET s == exchange_information[find_i + 1].symbol
          IN  /\ lastLookup' = Lookup(s, TRUE, n)
              /\ symbol_checks' = symbol_checks \cup {s}
              /\ traded' = IF n > 0 THEN process_traded_symbol(traded, s) ELSE traded
    /\ lookups' = lookups + 1
    /\ find_counter' = find_counter + 1
    /\ find_i' = find_i + 1
    /\ UNCHANGED << syncVarsButTraded, restVars, pnlVars, tickVars, exchange_information, find_pc >>

\* The lookup marks the symbol checked although it raised.
FindLookupFail_MarksChecked ==
    /\ find_pc = "pass"
    /\ find_i < Len(exchange_information)
    /\ LookupDue(find_i + 1)
    /\ lastLookup' = Lookup(exchange_information[find_i + 1].symbol, FALSE, 0)
    /\ symbol_checks' = symbol_checks \cup { exchange_information[find_i + 1].symbol }
    /\ lookups' = lookups + 1
    /\ find_pc' = "sleep"
    /\ UNCHANGED << syncVars, restVars, pnlVars, tickVars, exchange_information, find_i, find_counter >>

\* One iteration of the for loop whose lookup raises: the pass ends in the handler.
FindLookupFail ==
    /\ find_pc = "pass"
    /\ find_i < Len(exchange_information)
    /\ LookupDue(find_i + 1)
    /\ lastLookup' = Lookup(exchange_information[find_i + 1].symbol, FALSE, 0)
    /\ lookups' = lookups + 1
    /\ find_pc' = "sleep"
    /\ UNCHANGED << syncVars, restVars, pnlVars, tickVars, exchange_information, symbol_checks, find_i,
                    find_counter >>

\* The for loop is through the items: time.sleep(20).
FindPassEnd ==
    /\ find_pc = "pass"
    /\ find_i = Len(exchange_information)
    /\ find_pc' = "sleep"
    /\ UNCHANGED << syncVars, restVars, pnlVars, tickVars, exchange_information, symbol_checks, find_i,
                    find_counter, lookups, lastLookup >>

\* time.sleep(20) is over: the next pass starts.
FindWake ==
    /\ find_pc = "sleep"
    /\ find_pc' = "pass"
    /\ find_i' = 0
    /\ find_counter' = 0
    /\ lookups' = 0
    /\ UNCHANGED << syncVars, restVars, pnlVars, tickVars, exchange_information, symbol_checks,
                    lastLookup >>

FindNext ==
    \/ FindSkip
    \/ FindLookup
    \/ FindLookupFail
    \/ FindPassEnd
    \/ FindWake

FindSpec == FindInit /\ [][FindNext]_vars

\* ------------------------------------ process_trades, get_current_price
\* The number of places of seq that hold x.
Count(seq, x) == Cardinality({ i \in 1..Len(seq) : seq[i] = x })

\* threading.Thread(target = self.process_trades, args = (symbol,)).start(): the
\* new thread stands before line 324.
Spawn(s) == Append(tick_threads, [ symbol |-> s, at |-> "check" ])

\* start() is called with one or two symbols configured.
TickInit ==
    /\ SyncIdle
    /\ PnlIdle
    /\ FindIdle
    /\ RestIdle
    /\ config_symbols \in { << "A" >>, << "A", "B" >> }
    /\ start_i = 0
    /\ tick_symbols = << >>
    /\ tick_threads = << >>
    /\ streams = [ s \in Symbols |-> 0 ]

\* start(): one iteration of `for symbol in self.config.symbols`.
StartTickThread ==
    /\ start_i < Len(config_symbols)
    /\ Len(tick_threads) < MaxThreads
    /\ tick_threads' = Spawn(config_symbols[start_i + 1])
    /\ start_i' = start_i + 1
    /\ UNCHANGED << syncVars, restVars, pnlVars, findVars, config_symbols, tick_symbols,
                    streams >>

\* get_current_price(symbol), called by sync_account: a thread is started for a
\* symbol that is not in tick_symbols.
get_current_price ==
    /\ Len(tick_threads) < MaxThreads
    /\ \E s \in Symbols :
          /\ s \notin Range(tick_symbols)
          /\ tick_threads' = Spawn(s)
    /\ UNCHANGED << syncVars, restVars, pnlVars, findVars, config_symbols, start_i,
                    tick_symbols, streams >>

\* process_trades, line 324: `if symbol in self.tick_symbols`, and the return.
TickCheck ==
    \E th \in 1..Len(tick_threads) :
       /\ tick_threads[th].at = "check"
       /\ tick_threads' =
             [ tick_threads EXCEPT
                 ![th].at = IF tick_threads[th].symbol \in Range(tick_symbols)
                            THEN "returned" ELSE "append" ]
       /\ UNCHANGED << syncVars, restVars, pnlVars, findVars, config_symbols, start_i,
                       tick_symbols, streams >>

\* process_trades, line 327: self.tick_symbols.append(symbol).
TickAppend ==
    \E th \in 1..Len(tick_threads) :
       /\ tick_threads[th].at = "append"
       /\ tick_symbols' = Append(tick_symbols, tick_threads[th].symbol)
       /\ tick_threads' = [ tick_threads EXCEPT ![th].at = "create" ]
       /\ UNCHANGED << syncVars, restVars, pnlVars, findVars, config_symbols, start_i, streams >>

\* process_trades, line 329: self.ws_manager.create_stream(...).
TickCreateStream ==
    \E th \in 1..Len(tick_threads) :
       /\ tick_threads[th].at = "create"
       /\ streams' = [ streams EXCEPT ![tick_threads[th].symbol] = @ + 1 ]
       /\ tick_threads' = [ tick_threads EXCEPT ![th].at = "loop" ]
       /\ UNCHANGED << syncVars, restVars, pnlVars, findVars, config_symbols, start_i,
                       tick_symbols >>

\* process_trades, lines 335-350: a call of the loop raises; nothing catches it, the
\* thread ends and line 352 is not reached.
TickRaise ==
    \E th \in 1..Len(tick_threads) :
       /\ tick_threads[th].at = "loop"
       /\ tick_threads' = [ tick_threads EXCEPT ![th].at = "dead" ]
       /\ UNCHANGED << syncVars, restVars, pnlVars, findVars, config_symbols, start_i,
                       tick_symbols, streams >>

TickNext ==
    \/ StartTickThread
    \/ get_current_price
    \/ TickCheck
    \/ TickAppend
    \/ TickCreateStream
    \/ TickRaise

TickSpec == TickInit /\ [][TickNext]_vars

\* ----------------------------------------------------------- sync_account
\* In this section symbol A stands for BTCUSDT and symbol B for BTCBUSD.
StableAssets == {"USDT", "BUSD", "USD"}

\* The symbols asset + 'USDT', asset + 'BUSD' and asset + 'USD'.
UsdSymbols(asset) == IF asset = "BTC" THEN {"A", "B"} ELSE {}

\* repository.get_trades_by_asset(symbol): the stored fills of the symbol.
get_trades_by_asset(s) == trades[s]

\* repository.get_open_orders(symbol): the stored open orders of the symbol.
get_open_orders(s) == { o \in orders : o.symbol = s }

\* repository.get_current_price(symbol), and 0.0 where it returns None.
curr_price(s) == IF prices[s] = NoTick THEN Rat(0) ELSE Rat(prices[s].price)

\* The open order is not asked for: stored fills are enough.
IsActive_FillsOnly(s) == Len(get_trades_by_asset(s)) > 0

\* len(symbol_trades) > 0 and len(self.repository.get_open_orders(symbol)) > 0
IsActive(s) ==
    /\ Len(get_trades_by_asset(s)) > 0
    /\ Cardinality(get_open_orders(s)) > 0

\* One iteration of `for current_usd_price in current_usd_prices` over the state
\* st; started holds the symbols get_current_price starts a thread for.
TickerStep(st, position_size, s) ==
    IF IsActive(s)
    THEN LET position_price == calc_long_pprice(position_size, get_trades_by_asset(s))
             unrealized_profit ==
                 RMul(RSub(curr_price(s), position_price), position_size)
         IN  [ asset_usd_balance |-> RMul(position_size, position_price),
               unrealized_profit |-> unrealized_profit,
               total_unrealized_profit |->
                   RAdd(st.total_unrealized_profit, unrealized_profit),
               positions |->
                   Append(st.positions,
                          [ symbol |-> s, entry_price |-> position_price,
                            position_size |-> position_size, side |-> "LONG",
                            unrealizedProfit |-> unrealized_profit,
                            initial_margin |-> Rat(0) ]),
               started |-> IF s \in Range(tick_symbols) THEN st.started
                           ELSE Append(st.started, s) ]
    ELSE st

RECURSIVE TickerLoop(_, _, _)
TickerLoop(st, position_size, symbols) ==
    IF symbols = << >> THEN st
    ELSE CHOOSE out \in { TickerLoop(next, position_size, Tail(symbols)) :
                             next \in { TickerStep(st, position_size, Head(symbols)) } } : TRUE

\* One iteration of `for balance in account['balances']`.
BalanceStep(st, bal) ==
    LET position_size == RAdd(bal.free, bal.locked)
        matches(p) == p \in UsdSymbols(bal.asset)
        current_usd_prices == SelectSeq(current_prices, matches)
    IN  IF ~ RPos(position_size) THEN st
        ELSE IF bal.asset \in StableAssets
        THEN [ st EXCEPT !.total_usdt_wallet_balance = RAdd(@, position_size) ]
        ELSE IF Len(current_usd_prices) = 0 THEN st
        ELSE LET inner ==
                     TickerLoop([ asset_usd_balance |-> Rat(0),
                                  unrealized_profit |-> Rat(0),
                                  total_unrealized_profit |-> st.total_unrealized_profit,
                                  positions |-> st.positions,
                                  started |-> st.started ],
                                position_size, current_usd_prices)
             IN  [ st EXCEPT
                     !.total_unrealized_profit = inner.total_unrealized_profit,
                     !.positions = inner.positions,
                     !.started = inner.started,
                     !.asset_balances =
                         Append(@, [ asset |-> bal.asset,
                                     balance |-> inner.asset_usd_balance,
                                     unrealizedProfit |-> inner.unrealized_profit ]) ]

RECURSIVE BalanceLoop(_, _)
BalanceLoop(st, balances) ==
    IF balances = << >> THEN st
    ELSE CHOOSE out \in { BalanceLoop(next, Tail(balances)) :
                             next \in { BalanceStep(st, Head(balances)) } } : TRUE

RECURSIVE SumBalances(_)
\* sum([b.balance for b in asset_balances])
SumBalances(asset_balances) ==
    IF asset_balances = << >> THEN Rat(0)
    ELSE RAdd(Head(asset_balances).balance, SumBalances(Tail(asset_balances)))

\* The body of the try of sync_account: the Balance and the positions it hands to
\* the repository, and the symbols it starts a process_trades thread for.
AccountSnapshot ==
    LET st == BalanceLoop([ total_usdt_wallet_balance |-> Rat(0),
                            total_unrealized_profit |-> Rat(0),
                            asset_balances |-> << >>,
                            positions |-> << >>,
                            started |-> << >> ], account)
    IN  [ balance |->
              [ totalBalance |-> RAdd(st.total_usdt_wallet_balance,
                                      SumBalances(st.asset_balances)),
                totalUnrealizedProfit |-> st.total_unrealized_profit,
                assets |-> st.asset_balances ],
          positions |-> st.positions,
          started |-> st.started ]

\* The fills stored for A (two buys, average 40000) and for B (one buy at 40000).
StoredFills(s) ==
    IF s = "A"
    THEN << [ symbol |-> "A", order_id |-> 1, quantity |-> 1, price |-> 30000,
              side |-> "BUY", timestamp |-> 0 ],
            [ symbol |-> "A", order_id |-> 2, quantity |-> 1, price |-> 50000,
              side |-> "BUY", timestamp |-> 1 ] >>
    ELSE << [ symbol |-> "B", order_id |-> 1, quantity |-> 1, price |-> 40000,
              side |-> "BUY", timestamp |-> 0 ] >>

\* An open order for s, as sync_open_orders stores it.
OrderOf(s) ==
    [ symbol |-> s, price |-> 60000, quantity |-> 1, side |-> "SELL",
      position_side |-> "LONG", type |-> "LIMIT" ]

\* The price of the ticks the venue streams.
TickPrice == 50000

\* The wallet holds USDT and BTC; the repository holds fills, open orders and tick
\* prices for some of the two BTC symbols; no thread of start() is running.
AccountInit ==
    /\ now = 0
    /\ venue = [ s \in Symbols |-> << >> ]
    /\ traded = << >>
    /\ \E stored \in SUBSET Symbols :
          trades = [ s \in Symbols |-> IF s \in stored THEN StoredFills(s) ELSE << >> ]
    /\ incomes = [ s \in Symbols |-> << >> ]
    /\ first_trade_reached = << >>
    /\ pc = "select"
    /\ counter = 0
    /\ iteration_symbols = << >>
    /\ symbol = None
    /\ newest_trade_reached = FALSE
    /\ calls = 0
    /\ lastReq = NoReq
    /\ emptyBackward = [ s \in Symbols |-> 0 ]
    /\ passNew = 0
    /\ restarts = 0
    /\ PnlIdle
    /\ FindIdle
    /\ TickIdle
    /\ \E usdt \in { Rat(0), Rat(1000) },
          btc \in { << Rat(0), Rat(0) >>, << << 1, 10 >>, Rat(0) >>,
                    << << 1, 20 >>, << 1, 20 >> >> } :
          account = << [ asset |-> "USDT", free |-> usdt, locked |-> Rat(0) ],
                       [ asset |-> "BTC", free |-> btc[1], locked |-> btc[2] ] >>
    /\ current_prices \in { << >>, << "A" >>, << "A", "B" >>, << "B", "A" >> }
    /\ prices \in [ Symbols -> { NoTick, [ price |-> TickPrice ] } ]
    /\ balance = NoBalance
    /\ positions = << >>
    /\ acct_pc = "cycle"
    /\ \E open \in SUBSET Symbols : orders = { OrderOf(s) : s \in open }
    /\ open_orders = {}
    /\ orders_pc = "cycle"
    /\ lastListing = NoListing

\* One cycle of sync_account in which no call raises: the snapshot is written and
\* get_current_price has started a thread for each symbol of a position that is
\* not in tick_symbols.
SyncAccount ==
    /\ acct_pc = "cycle"
    /\ \E snap \in { AccountSnapshot } :
          /\ Len(tick_threads) + Len(snap.started) <= MaxThreads
          /\ balance' = snap.balance
          /\ positions' = snap.positions
          /\ tick_threads' =
                tick_threads \o [ i \in 1..Len(snap.started) |->
                                    [ symbol |-> snap.started[i], at |-> "check" ] ]
    /\ acct_pc' = "sleep"
    /\ UNCHANGED << syncVars, pnlVars, findVars, orderVars, config_symbols, start_i,
                    tick_symbols, streams, account, current_prices, prices >>

\* One cycle of sync_account in which get_account raises: the handler of line 287.
SyncAccountFail ==
    /\ acct_pc = "cycle"
    /\ acct_pc' = "sleep"
    /\ UNCHANGED << syncVars, pnlVars, findVars, tickVars, orderVars, account,
                    current_prices, prices, balance, positions >>

\* time.sleep(20) is over.
AccountWake ==
    /\ acct_pc = "sleep"
    /\ acct_pc' = "cycle"
    /\ UNCHANGED << syncVars, pnlVars, findVars, tickVars, orderVars, account,
                    current_prices, prices, balance, positions >>

\* process_trades, lines 338-347: an aggTrade event is popped and
\* repository.process_tick(tick) stores its price.
TickProcessTick ==
    \E th \in 1..Len(tick_threads) :
       /\ tick_threads[th].at = "loop"
       /\ prices[tick_threads[th].symbol] # [ price |-> TickPrice ]
       /\ prices' = [ prices EXCEPT ![tick_threads[th].symbol] = [ price |-> TickPrice ] ]
       /\ UNCHANGED << syncVars, pnlVars, findVars, tickVars, orderVars, account,
                       current_prices, balance, positions, acct_pc >>

AccountNext ==
    \/ SyncAccount
    \/ SyncAccountFail
    \/ AccountWake
    \/ TickCheck
    \/ TickAppend
    \/ TickCreateStream
    \/ TickProcessTick

AccountSpec == AccountInit /\ [][AccountNext]_vars

\* ------------------------------------------------------- sync_open_orders
\* The open orders the venue can hold, as rest_manager.get_open_orders() reports
\* them.
VenueOrders ==
    { [ symbol |-> "A", price |-> 60000, origQty |-> 1, side |-> "SELL", type |-> "LIMIT" ],
      [ symbol |-> "A", price |-> 20000, origQty |-> 1, side |-> "BUY", type |-> "LIMIT" ],
      [ symbol |-> "B", price |-> 60000, origQty |-> 1, side |-> "SELL", type |-> "LIMIT" ] }

\* The Order built from one open_order (lines 298-304).
OrderFrom(open_order) ==
    [ symbol |-> open_order.symbol, price |-> open_order.price,
      quantity |-> open_order.origQty, side |-> open_order.side,
      position_side |-> "LONG", type |-> open_order.type ]

\* repository.process_orders(orders): the stored open orders are replaced by orders.
process_orders(new) == new

\* One cycle of sync_open_orders: whether the listing returned, the orders stored
\* before it and whether process_orders returned.
Listing(ok, stored) == [ ok |-> ok, before |-> orders, stored |-> stored ]

\* sync_open_orders is started; the repository holds the open orders of an earlier
\* run, the venue holds some open orders.
OrdersInit ==
    /\ SyncIdle
    /\ PnlIdle
    /\ FindIdle
    /\ TickIdle
    /\ AcctIdle
    /\ \E stored \in SUBSET VenueOrders : orders = { OrderFrom(o) : o \in stored }
    /\ open_orders \in SUBSET VenueOrders
    /\ orders_pc = "cycle"
    /\ lastListing = NoListing

\* One cycle in which the listing returns: its orders are stored.
SyncOpenOrders ==
    /\ orders_pc = "cycle"
    /\ orders' = process_orders({ OrderFrom(o) : o \in open_orders })
    /\ lastListing' = Listing(TRUE, TRUE)
    /\ orders_pc' = "sleep"
    /\ UNCHANGED << syncVars, pnlVars, findVars, tickVars, acctVars, open_orders >>

\* One cycle in which the listing raises: the handler of line 306 logs, and line 308
\* stores the list orders, which is still empty.
SyncOpenOrdersFail ==
    /\ orders_pc = "cycle"
    /\ orders' = process_orders({})
    /\ lastListing' = Listing(FALSE, TRUE)
    /\ orders_pc' = "sleep"
    /\ UNCHANGED << syncVars, pnlVars, findVars, tickVars, acctVars, open_orders >>

\* One cycle in which repository.process_orders raises (line 308, outside the try):
\* the exception leaves sync_open_orders and its thread ends.
SyncOpenOrdersStoreFail ==
    /\ orders_pc = "cycle"
    /\ \E ok \in BOOLEAN : lastListing' = Listing(ok, FALSE)
    /\ orders_pc' = "dead"
    /\ UNCHANGED << syncVars, pnlVars, findVars, tickVars, acctVars, orders, open_orders >>

\* time.sleep(30) is over.
OrdersWake ==
    /\ orders_pc = "sleep"
    /\ orders_pc' = "cycle"
    /\ UNCHANGED << syncVars, pnlVars, findVars, tickVars, acctVars, orders, open_orders,
                    lastListing >>

\* The venue: an order is placed, or an open order is filled or cancelled.
VenueOrderChange ==
    /\ \E o \in VenueOrders :
          open_orders' = IF o \in open_orders THEN open_orders \ {o}
                         ELSE open_orders \cup {o}
    /\ UNCHANGED << syncVars, pnlVars, findVars, tickVars, acctVars, orders, orders_pc,
                    lastListing >>

OrdersNext ==
    \/ SyncOpenOrders
    \/ SyncOpenOrdersFail
    \/ SyncOpenOrdersStoreFail
    \/ OrdersWake
    \/ VenueOrderChange

OrdersSpec == OrdersInit /\ [][OrdersNext]_vars

\* ----------------------------------------------------------------- claims
StoredIds(rows) == { rows[i].order_id : i \in 1..Len(rows) }
VenueIds(s) == 1..Len(venue[s])
MaxId(rows) ==
    IF rows = << >> THEN 0
    ELSE CHOOSE m \in StoredIds(rows) : \A k \in StoredIds(rows) : k <= m
MinTimestamp(rows) ==
    CHOOSE m \in { rows[i].timestamp : i \in 1..Len(rows) } :
       \A i \in 1..Len(rows) : m <= rows[i].timestamp
FlagIn(f, s) == s \in DOMAIN f /\ f[s] = TRUE

\* C1: when the backward-complete flag of a symbol is set and its forward pass ends
\* on an empty page, every fill the venue holds for the symbol at that moment is
\* stored.
CE_C1_NoFillMissing ==
    [][ ( /\ calls' = calls + 1
          /\ lastReq'.kind = "forward" /\ lastReq'.ok /\ lastReq'.n = 0
          /\ FlagIn(first_trade_reached, symbol) )
        => \A id \in VenueIds(symbol) : id \in StoredIds(trades'[symbol]) ]_vars

\* C2: once the backward scan of a symbol is complete, it has seen exactly one empty
\* page and every fill of the history up to the newest stored one is stored.
CE_C2_BackwardConverges ==
    \A s \in Symbols :
       Flag(s) =>
          /\ emptyBackward[s] = 1
          /\ \A id \in VenueIds(s) :
                id < MaxId(trades[s]) => id \in StoredIds(trades[s])

\* C3: a forward request asks for order ids from (largest stored order id) + 1, from
\* 0 + 1 with nothing stored, and so never for an order id that is stored; the page
\* it returns holds new fills only.
T_C3_ForwardCursor ==
    [][ ( calls' = calls + 1 /\ lastReq'.kind = "forward" )
        => /\ lastReq'.arg = MaxId(trades[symbol]) + 1
           /\ \A id \in StoredIds(trades[symbol]) : id < lastReq'.arg
           /\ Len(trades'[symbol]) = Len(trades[symbol]) + lastReq'.n ]_vars

\* A forward request after a restart, with fills stored before the restart.
W_C3_ForwardAfterRestart ==
    /\ restarts > 0
    /\ lastReq.kind = "forward"
    /\ lastReq.arg > 1

\* C4 as stated: the end time of a backward request is (oldest stored timestamp) - 1
\* with a fill stored and the wall-clock time with none, and no returned fill is
\* already stored.
CE_C4_BackwardCursor ==
    [][ ( calls' = calls + 1 /\ lastReq'.kind = "backward" )
        => /\ lastReq'.arg = IF trades[symbol] = << >> THEN now
                             ELSE MinTimestamp(trades[symbol]) - 1
           /\ Len(trades'[symbol]) = Len(trades[symbol]) + lastReq'.n ]_vars

\* C4 as amended: the end time of a backward request is (oldest stored timestamp) - 1
\* with a fill stored and (wall-clock time) - 1 with none, and no returned fill is
\* already stored.
T_C4_BackwardCursor ==
    [][ ( calls' = calls + 1 /\ lastReq'.kind = "backward" )
        => /\ lastReq'.arg = IF trades[symbol] = << >> THEN now - 1
                             ELSE MinTimestamp(trades[symbol]) - 1
           /\ Len(trades'[symbol]) = Len(trades[symbol]) + lastReq'.n ]_vars

\* A backward request after a restart that returned older fills than the stored ones.
W_C4_BackwardAfterRestart ==
    /\ restarts > 0
    /\ lastReq.kind = "backward" /\ lastReq.ok /\ lastReq.n > 0
    /\ Len(trades[lastReq.symbol]) > lastReq.n

\* C5: a backward request is issued only for a symbol whose flag is not set, sets the
\* flag exactly when its page is empty, nothing else sets the flag, and a set flag
\* stays set for the rest of the process run.
T_C5_FlagOnEmptyPageOnly ==
    [][ \A s \in Symbols :
          /\ ( FlagIn(first_trade_reached, s) /\ restarts' = restarts )
             => FlagIn(first_trade_reached', s)
          /\ ( calls' = calls + 1 /\ lastReq'.kind = "backward" /\ lastReq'.symbol = s )
             => /\ ~ FlagIn(first_trade_reached, s)
                /\ FlagIn(first_trade_reached', s) <=> ( lastReq'.ok /\ lastReq'.n = 0 )
          /\ ( ~ FlagIn(first_trade_reached, s) /\ FlagIn(first_trade_reached', s) )
             => ( calls' = calls + 1 /\ lastReq'.kind = "backward"
                  /\ lastReq'.symbol = s ) ]_vars

\* A later cycle starts the scan of a symbol whose flag is set in its forward loop.
W_C5_LaterCycleSkipsBackward ==
    /\ pc = "forward" /\ calls = 0
    /\ symbol \in Symbols /\ Flag(symbol)
    /\ trades[symbol] # << >>

\* C6: a cycle issues at most max_downloads remote fill-history calls.
T_C6_CallBudget == calls <= max_downloads

\* A cycle that used the whole budget on remote calls for two symbols.
W_C6_BudgetUsedUp ==
    /\ calls = max_downloads
    /\ Len(traded) = 2

\* C7: every queued symbol is issued a remote fill-history call again and again.
T_C7_FairProgress ==
    \A s \in Symbols : []<>( s \in Range(traded) => lastReq.symbol = s )

\* A call for B returned while the backward scan of A, begun before, is not done.
W_C7_OtherSymbolServed ==
    /\ lastReq.symbol = "B" /\ lastReq.ok
    /\ "A" \in DOMAIN first_trade_reached /\ ~ Flag("A")
    /\ Len(venue["A"]) > Len(trades["A"])
    /\ restarts = 0

\* C8 as stated: a failed remote call changes no stored trade, income or flag, and
\* aborts the page fetch only: with budget left, the cycle goes on.
CE_C8_FailureAbortsPageOnly ==
    [][ ( calls' = calls + 1 /\ ~ lastReq'.ok )
        => /\ trades' = trades
           /\ incomes' = incomes
           /\ first_trade_reached' = first_trade_reached
           /\ ( HasBudget(counter + 1) => pc' # "sleep" ) ]_vars

\* C8 as amended: a failed remote call changes no stored trade, income or flag, and
\* ends the cycle: the next call is issued in the next cycle.
T_C8_FailureKeepsState ==
    [][ ( calls' = calls + 1 /\ ~ lastReq'.ok )
        => /\ trades' = trades
           /\ incomes' = incomes
           /\ first_trade_reached' = first_trade_reached
           /\ pc' = "sleep" ]_vars

\* A failed backward call for a symbol with a stored trade, another flag being set.
W_C8_FailedCall ==
    /\ pc = "sleep"
    /\ lastReq.kind = "backward" /\ ~ lastReq.ok
    /\ trades[lastReq.symbol] # << >>
    /\ \E s \in Symbols : Flag(s)

\* Every income of the symbol's stored fills is stored for the symbol.
IncomesCurrent(s, tradeRows, incomeRows) ==
    \A inc \in Range(calculate_incomes(s, get_trades(tradeRows))) :
       inc \in Range(incomeRows)

\* C9 as stated: a forward pass that stored a new fill, and no call of which
\* failed, leaves the incomes of all stored fills of the symbol written when it ends.
CE_C9_IncomesAfterNewFills ==
    [][ ( pc = "forward" /\ pc' # "forward" /\ lastReq'.ok /\ passNew' > 0 )
        => IncomesCurrent(symbol, trades'[symbol], incomes'[symbol]) ]_vars

\* C9 as amended: a forward request that returns an empty page leaves the incomes
\* of all stored fills of the symbol written; no other step writes an income.
T_C9_IncomesAfterEmptyPage ==
    [][ /\ ( /\ calls' = calls + 1
             /\ lastReq'.kind = "forward" /\ lastReq'.ok /\ lastReq'.n = 0 )
           => IncomesCurrent(symbol, trades'[symbol], incomes'[symbol])
        /\ incomes' # incomes
           => ( /\ calls' = calls + 1
                /\ lastReq'.kind = "forward" /\ lastReq'.ok /\ lastReq'.n = 0 ) ]_vars

\* A forward pass stored a new fill, ended on an empty page and wrote an income.
W_C9_IncomeWritten ==
    /\ lastReq.kind = "forward" /\ lastReq.ok /\ lastReq.n = 0
    /\ passNew > 0
    /\ incomes[lastReq.symbol] # << >>

KindsOf(rows) ==
    [ i \in 1..Len(rows) |->
        [ side |-> rows[i].side, qty |-> rows[i].quantity, price |-> rows[i].price ] ]

\* [BUY 10@100, BUY 10@200, SELL 5@300]
ExampleA ==
    << [side |-> "BUY", qty |-> 10, price |-> 100],
       [side |-> "BUY", qty |-> 10, price |-> 200],
       [side |-> "SELL", qty |-> 5, price |-> 300] >>

\* C11: each iteration of calculate_incomes follows the reference rules.  A BUY of
\* q at p adds q to the size and makes the average price the size-weighted average
\* of the old average and p, and emits nothing; a SELL of q at s with size > 0 emits
\* exactly one Income of q * (s - average price) and leaves max(0, size - q); the
\* incomes of the whole list are those of calculate_incomes; the list
\* [BUY 10@100, BUY 10@200, SELL 5@300] ends with one Income of 750, size 15 and
\* average price 150.
T_C11_ReferenceRules ==
    [][ pnl_i' = pnl_i + 1 =>
        LET trade == pnl_trades[pnl_i + 1]
            q == Rat(trade.quantity)
            p == Rat(trade.price)
        IN  /\ trade.side = "BUY" =>
                 /\ psize' = RAdd(psize, q)
                 /\ pprice' = RDiv(RAdd(RMul(pprice, psize), RMul(p, q)), RAdd(psize, q))
                 /\ pnl_incomes' = pnl_incomes
            /\ ( trade.side = "SELL" /\ RPos(psize) ) =>
                 /\ Len(pnl_incomes') = Len(pnl_incomes) + 1
                 /\ SubSeq(pnl_incomes', 1, Len(pnl_incomes)) = pnl_incomes
                 /\ pnl_incomes'[Len(pnl_incomes')] =
                       [ symbol |-> "A", income |-> RMul(q, RSub(p, pprice)),
                         timestamp |-> trade.timestamp,
                         transaction_id |-> trade.order_id ]
                 /\ psize' = RMax0(RSub(psize, q))
                 /\ pprice' = pprice
            /\ pnl_i' = Len(pnl_trades) =>
                 pnl_incomes' = calculate_incomes("A", pnl_trades)
            /\ ( KindsOf(pnl_trades) = ExampleA /\ pnl_i' = Len(pnl_trades) ) =>
                 /\ Len(pnl_incomes') = 1
                 /\ pnl_incomes'[1].income = Rat(750)
                 /\ psize' = Rat(15)
                 /\ pprice' = Rat(150) ]_vars

\* calculate_incomes has returned on [BUY 10@100, BUY 10@200, SELL 5@300].
W_C11_ExampleReplayed ==
    /\ KindsOf(pnl_trades) = ExampleA
    /\ pnl_i = Len(pnl_trades)
    /\ Len(pnl_incomes) = 1 /\ pnl_incomes[1].income = Rat(750)

\* C12: for trades of positive quantity, the size is never negative; a SELL never
\* raises the size and never changes the average price; a SELL at size 0 emits no
\* Income and leaves the size at 0.
T_C12_LongOnly ==
    [][ pnl_i' = pnl_i + 1 =>
        LET trade == pnl_trades[pnl_i + 1]
        IN  /\ psize[1] >= 0 /\ psize'[1] >= 0
            /\ trade.side = "SELL" =>
                 /\ RSub(psize', psize)[1] <= 0
                 /\ pprice' = pprice
            /\ ( trade.side = "SELL" /\ psize = Rat(0) ) =>
                 /\ pnl_incomes' = pnl_incomes
                 /\ psize' = Rat(0) ]_vars

\* A SELL larger than the size emptied the position and the next SELL found size 0.
W_C12_SellAtZero ==
    /\ pnl_i = 3
    /\ pnl_trades[1].side = "BUY"
    /\ pnl_trades[2].side = "SELL" /\ pnl_trades[2].quantity > pnl_trades[1].quantity
    /\ pnl_trades[3].side = "SELL"
    /\ psize = Rat(0)
    /\ Len(pnl_incomes) = 1

\* C20: whatever the order in which the trades are passed and whatever the reported
\* size, calc_long_pprice returns the value it returns on the trades ordered by
\* timestamp, which is the average price calculate_incomes ends with on them.
CE_C20_OrderIndependent ==
    pp_result # NoResult =>
       /\ pp_result.value = calc_long_pprice(0, pnl_trades)
       /\ pp_result.value = pprice

\* The symbols of the exchange information that are due for a lookup, the budget
\* of the pass apart.
DueSymbols ==
    { exchange_information[i].symbol : i \in
        { j \in 1..Len(exchange_information) :
            /\ exchange_information[j].status = "TRADING"
            /\ exchange_information[j].symbol \notin symbol_checks
            /\ exchange_information[j].symbol \notin Range(traded) } }

\* C13: a pass issues at most 3 lookups, and a lookup is issued only for a symbol
\* that has TRADING status, is not marked checked and is not marked traded.
T_C13_LookupLimit ==
    [][ /\ lookups' <= 3
        /\ lookups' = lookups + 1 => lastLookup'.symbol \in DueSymbols ]_vars

\* A pass issued 3 lookups and went past a fourth symbol that is due.
W_C13_FourthSymbolLeft ==
    /\ lookups = 3
    /\ find_i = Len(exchange_information)
    /\ DueSymbols # {}

\* C14: a symbol is marked checked only by a lookup of it that returned, and by
\* every such lookup; it is queued as traded only by a lookup that returned a fill;
\* a lookup that raised marks nothing, ends the pass, and the next lookup issued is
\* a lookup of the same symbol.
T_C14_CheckedOnSuccess ==
    [][ /\ symbol_checks' # symbol_checks =>
             /\ lookups' = lookups + 1 /\ lastLookup'.ok
             /\ symbol_checks' = symbol_checks \cup { lastLookup'.symbol }
        /\ ( lookups' = lookups + 1 /\ lastLookup'.ok ) =>
             /\ lastLookup'.symbol \in symbol_checks'
             /\ lastLookup'.symbol \in Range(traded') <=> lastLookup'.n > 0
        /\ traded' # traded =>
             /\ lookups' = lookups + 1 /\ lastLookup'.ok /\ lastLookup'.n > 0
             /\ traded' = Append(traded, lastLookup'.symbol)
        /\ ( lookups' = lookups + 1 /\ ~ lastLookup'.ok ) =>
             /\ symbol_checks' = symbol_checks
             /\ traded' = traded
             /\ find_pc' = "sleep"
             /\ lastLookup'.symbol \in DueSymbols'
        /\ ( lookups' = lookups + 1 /\ ~ lastLookup.ok ) =>
             lastLookup'.symbol = lastLookup.symbol ]_vars

\* A symbol whose lookup had raised was looked up again in a later pass, found
\* traded and queued.
W_C14_RetriedAndQueued ==
    /\ lastLookup.ok /\ lastLookup.retry /\ lastLookup.n > 0
    /\ lastLookup.symbol \in symbol_checks
    /\ lastLookup.symbol \in Range(traded)

\* C15: whatever the interleaving of the process_trades threads, at most one tick
\* stream is created for a symbol and the symbol is at most once in tick_symbols.
CE_C15_SubscribedOnce ==
    \A s \in Symbols : streams[s] <= 1 /\ Count(tick_symbols, s) <= 1

\* The wallet amount of an asset: free + locked of its balance.
WalletAmount(asset) ==
    LET bal == CHOOSE b \in Range(account) : b.asset = asset
    IN  RAdd(bal.free, bal.locked)

\* The asset of the wallet that symbol s is a quote ticker of.
AssetOf(s) == CHOOSE a \in { b.asset : b \in Range(account) } : s \in UsdSymbols(a)

\* C16: at the end of a cycle of sync_account, each Position written is for a
\* symbol whose asset has a wallet amount > 0 and for which the repository holds
\* at least one stored fill and at least one stored open order; its entry price is
\* the average entry price of the stored fills and its size is the wallet amount.
T_C16_PositionNeedsFillsAndOrder ==
    [][ ( acct_pc = "cycle" /\ acct_pc' = "sleep" ) =>
          \A i \in 1..Len(positions') :
             /\ RPos(WalletAmount(AssetOf(positions'[i].symbol)))
             /\ Len(trades[positions'[i].symbol]) >= 1
             /\ \E o \in orders : o.symbol = positions'[i].symbol
             /\ positions'[i].entry_price =
                   calc_long_pprice(0, trades[positions'[i].symbol])
             /\ positions'[i].position_size =
                   WalletAmount(AssetOf(positions'[i].symbol)) ]_vars

\* A snapshot was written with one Position, for A, of size 0.05 + 0.05 and entry
\* price 40000, while B is listed and has stored fills but no stored open order.
W_C16_OnePositionOfTwoTickers ==
    /\ balance # NoBalance
    /\ Len(positions) = 1
    /\ positions[1].symbol = "A"
    /\ positions[1].entry_price = Rat(40000)
    /\ positions[1].position_size = << 1, 10 >>
    /\ account[2].locked = << 1, 20 >>
    /\ "B" \in Range(current_prices)
    /\ trades["B"] # << >>
    /\ get_open_orders("B") = {}

\* The symbols of the asset that are listed and hold an active position.
ActiveSymbols(asset) ==
    { s \in Range(current_prices) \cap UsdSymbols(asset) : IsActive(s) }

\* C17: the snapshot a cycle of sync_account writes has, for a wallet of USDT and
\* BTC, total balance = USDT amount + size * entry price and total unrealized
\* profit = (mark price - entry price) * size, with BTC counted once (for one of
\* its symbols that hold an active position) however many quote tickers it has,
\* and total balance = USDT amount and total unrealized profit = 0 when BTC has
\* no active position.
CE_C17_TotalsCountOnce ==
    [][ balance' # balance =>
          IF RPos(WalletAmount("BTC")) /\ ActiveSymbols("BTC") # {}
          THEN \E s \in ActiveSymbols("BTC") :
                  /\ balance'.totalBalance =
                        RAdd(WalletAmount("USDT"),
                             RMul(WalletAmount("BTC"),
                                  calc_long_pprice(0, trades[s])))
                  /\ balance'.totalUnrealizedProfit =
                        RMul(RSub(curr_price(s), calc_long_pprice(0, trades[s])),
                             WalletAmount("BTC"))
          ELSE /\ balance'.totalBalance = WalletAmount("USDT")
               /\ balance'.totalUnrealizedProfit = Rat(0) ]_vars

\* C18: a cycle of sync_open_orders whose listing raises leaves the stored open
\* orders as they were, and the stored open orders change only in a cycle whose
\* listing returned, to the orders it listed.
CE_C18_FailedListingKeepsOrders ==
    [][ /\ ( orders_pc = "cycle" /\ orders_pc' = "sleep" /\ ~ lastListing'.ok ) =>
             orders' = orders
        /\ orders' # orders =>
             /\ lastListing'.ok
             /\ orders' = { OrderFrom(o) : o \in open_orders } ]_vars

\* C19: the sync_open_orders worker is never ended by an error of one of its
\* cycles: it is in a cycle or asleep before the next one.
CE_C19_WorkerSurvivesErrors ==
    orders_pc \in { "cycle", "sleep" }

\* The iterations of the symbol-selection loop begun in the cycle in progress: those
\* for a missing or repeated symbol (a unit of the counter and no call each) and
\* those for a newly selected symbol.
IterationsSoFar == (counter - calls) + Len(iteration_symbols)

NoRepeat(seq) == \A i, j \in 1..Len(seq) : i # j => seq[i] # seq[j]

\* A step of sync_trades taken from position at: not a restart, not the clock, not
\* the venue.
WorkerStepAt(at) ==
    /\ pc \in at
    /\ restarts' = restarts
    /\ now' = now
    /\ venue' = venue

\* C21: in a cycle of sync_trades, an iteration of the selection loop for a missing
\* or repeated symbol adds one to the counter and issues no call, an iteration for
\* a new symbol goes to a scan of that symbol, where the next step is a remote call,
\* and each remote call adds one to the counter or ends the cycle; the counter
\* stays below max_downloads, the iterations begun are at most max_downloads, and
\* no symbol is twice among the symbols scanned in the cycle.
T_C21_CycleBounded ==
    /\ []( pc # "sleep" =>
             /\ counter < max_downloads
             /\ calls <= counter
             /\ NoRepeat(iteration_symbols)
             /\ IterationsSoFar <= ( IF pc = "select" THEN counter ELSE counter + 1 )
             /\ pc \in { "backward", "forward" } =>
                   symbol = iteration_symbols[Len(iteration_symbols)] )
    /\ [][ /\ WorkerStepAt({ "select" }) =>
                IF \/ get_next_traded_symbol = None
                   \/ get_next_traded_symbol \in Range(iteration_symbols)
                THEN /\ calls' = calls
                     /\ \/ pc' = "sleep" /\ counter = max_downloads - 1
                        \/ /\ pc' = "select"
                           /\ counter' = counter + 1
                           /\ iteration_symbols' = iteration_symbols
                ELSE /\ iteration_symbols' =
                           Append(iteration_symbols, get_next_traded_symbol)
                     /\ symbol' = get_next_traded_symbol
                     /\ pc' \in { "backward", "forward" }
                     /\ counter' = counter
           /\ WorkerStepAt({ "backward", "forward" }) =>
                /\ calls' = calls + 1
                /\ lastReq'.symbol = symbol
                /\ \/ pc' = "sleep"
                   \/ /\ counter' = counter + 1
                      /\ iteration_symbols' = iteration_symbols ]_vars

\* A cycle in which both symbols were scanned with one call each, the symbol
\* selected next was a repeated one, and one unit of the budget is left.
W_C21_RepeatedSymbolCounted ==
    /\ pc = "select"
    /\ iteration_symbols = << "A", "B" >>
    /\ calls = 2
    /\ counter = max_downloads - 1

\* The complete fill history of s as trades, in the order of execution.
CompleteHistory(s) == TradesOf(venue[s])

\* C22: when a forward pass of a symbol whose backward scan is complete
\* (first_trade_reached is True) ends on an empty page, the incomes stored for the
\* symbol are the incomes calculate_incomes yields on the complete fill history of
\* the symbol, taken in some order by timestamp.
CE_C22_IncomesOfCompleteHistory ==
    [][ ( /\ calls' = calls + 1
          /\ lastReq'.kind = "forward" /\ lastReq'.ok /\ lastReq'.n = 0
          /\ Flag(lastReq'.symbol) ) =>
          \E perm \in Perms(Len(venue[lastReq'.symbol])) :
             /\ IsByTimestamp(Permuted(CompleteHistory(lastReq'.symbol), perm))
             /\ Range(incomes'[lastReq'.symbol]) =
                   Range(calculate_incomes(lastReq'.symbol,
                            Permuted(CompleteHistory(lastReq'.symbol), perm))) ]_vars

====
